---- MODULE Spec2Model ----
(***************************************************************************)
(* Model of titus.lib1.model.cluster (src/titus/titus/lib1/model/cluster.py)*)
(* : closest, closestN, randomSeeds, kmeansIteration and updateMean.        *)
(*                                                                          *)
(* Numbers. The library computes on Python floats. The model computes on    *)
(* exact rationals, a pair <<n, d>> in lowest terms with d > 0, so that a   *)
(* mean such as 4/3 is a value of the model and an equation between a sum   *)
(* and a product is exact. Rounding, NaN and infinities are not modelled.   *)
(*                                                                          *)
(* Calls. Every library function is an operator that returns Ok(value) or   *)
(* Err(message); Err models "raise PFARuntimeException(message)". A call    *)
(* of the library is one action: it draws its arguments from bounded sets,  *)
(* evaluates the operator, and records the arguments, the outcome, the      *)
(* callbacks it invoked and the state of the randomness source.             *)
(***************************************************************************)
EXTENDS Integers, Sequences, FiniteSets, TLC

VARIABLES
    op,        \* the library function called last ("idle" before any call)
    arg,       \* the arguments of that call
    ret,       \* its outcome: Ok(value) or Err(message); NoRet before any call
    matched,   \* kmeansIteration's local buckets, one per cluster
    calls,     \* the callback invocations of the call, in order
    rand,      \* number of draws made from state.rand, the randomness source
    clusters,  \* Lloyd loop: the current cluster list
    steps      \* Lloyd loop: kmeansIteration calls made so far

vars == <<op, arg, ret, matched, calls, rand, clusters, steps>>

(***************************************************************************)
(* Bounds of the model: the longest data and cluster lists, the largest k   *)
(* and weight, and for the caller's loop the number of iterations made, the *)
(* size of a dataset and the number of iterations convergence is given.     *)
(***************************************************************************)
MaxData == 2
MaxClusters == 3
MaxK == 3
MaxWeight == 1
MaxSteps == 5
MaxPoints == 4
ConvergeSteps == 3

(***************************************************************************)
(* Exact rational arithmetic standing for Python's float +, *, / and <.     *)
(***************************************************************************)
Abs(x) == IF x < 0 THEN -x ELSE x

Min(a, b) == IF a < b THEN a ELSE b

RECURSIVE GCD(_, _)
GCD(a, b) == IF b = 0 THEN a ELSE GCD(b, a % b)

\* The rational n/d (d # 0) in lowest terms with a positive denominator.
Rat(n, d) ==
    IF d = 1 THEN <<n, 1>>
    ELSE LET g == GCD(Abs(n), Abs(d))
             s == IF d < 0 THEN -1 ELSE 1
         IN  <<(s * n) \div g, (s * d) \div g>>

Num(v) == Rat(v, 1)

RAdd(x, y) == Rat(x[1] * y[2] + y[1] * x[2], x[2] * y[2])

RSub(x, y) == Rat(x[1] * y[2] - y[1] * x[2], x[2] * y[2])

RMul(x, y) == Rat(x[1] * y[1], x[2] * y[2])

RLt(x, y) == x[1] * y[2] < y[1] * x[2]

IsZero(x) == x[1] = 0

(***************************************************************************)
(* Outcomes of a call.                                                      *)
(***************************************************************************)
Ok(v) == [kind |-> "value", val |-> v]

Err(m) == [kind |-> "error", msg |-> m]

NoRet == [kind |-> "none"]

IsOk(r) == r.kind = "value"

IsErr(r) == r.kind = "error"

Failed(r, m) == r.kind = "error" /\ r.msg = m

(***************************************************************************)
(* titus.util.div: the division used by updateMean. It is defined outside   *)
(* cluster.py, in titus/util.py, and is modelled from the specification's   *)
(* division policy: a zero denominator fails with DivisionByZero, any other *)
(* denominator gives the exact quotient.                                    *)
(***************************************************************************)
div(numer, denom) ==
    IF IsZero(denom) THEN Err("DivisionByZero")
    ELSE Ok(Rat(numer[1] * denom[2], numer[2] * denom[1]))

(***************************************************************************)
(* updateMean(data, cluster, weight), cluster.py lines 122-145.             *)
(***************************************************************************)
\* Variant of SumVecs: the loop starts at the second vector.
RECURSIVE SumVecsSkipFirst(_, _, _)
SumVecsSkipFirst(data, n, dimension) ==
    IF n <= 1 THEN [i \in 1..dimension |-> Num(0)]
    ELSE LET prev == SumVecsSkipFirst(data, n - 1, dimension)
         IN  [i \in 1..dimension |-> RAdd(prev[i], data[n][i])]

\* summ after the loop of lines 129-133: the elementwise sum of data[1..n].
RECURSIVE SumVecs(_, _, _)
SumVecs(data, n, dimension) ==
    IF n = 0 THEN [i \in 1..dimension |-> Num(0)]
    ELSE LET prev == SumVecs(data, n - 1, dimension)
         IN  [i \in 1..dimension |-> RAdd(prev[i], data[n][i])]

\* Variant of UpdateMeanDenom: the weight is left out.
UpdateMeanDenomLenOnly(data, weight) == Num(Len(data))

\* denom of line 141.
UpdateMeanDenom(data, weight) == RAdd(Num(Len(data)), weight)

\* Variant of UpdateMeanError: line 130 with < in place of !=.
UpdateMeanErrorShorterOnly(data, cluster) ==
    IF Len(data) = 0 THEN "no data"
    ELSE IF \E n \in 1..Len(data) : Len(data[n]) < Len(data[1])
    THEN "dimensions of vectors do not match"
    ELSE IF Len(cluster.center) # Len(data[1])
    THEN "dimensions of vectors do not match"
    ELSE ""

\* The error of lines 123-137, or "" when the arguments pass.
UpdateMeanError(data, cluster) ==
    IF Len(data) = 0 THEN "no data"
    ELSE IF \E n \in 1..Len(data) : Len(data[n]) # Len(data[1])
    THEN "dimensions of vectors do not match"
    ELSE IF Len(cluster.center) # Len(data[1])
    THEN "dimensions of vectors do not match"
    ELSE ""

UpdateMean(data, cluster, weight) ==
    IF UpdateMeanError(data, cluster) # "" THEN Err(UpdateMeanError(data, cluster))
    ELSE
    LET dimension == Len(data[1])
        center == cluster.center
        summ == SumVecs(data, Len(data), dimension)
        withOld == [i \in 1..dimension |-> RAdd(summ[i], RMul(weight, center[i]))]
        denom == UpdateMeanDenom(data, weight)
        quot == [i \in 1..dimension |-> div(withOld[i], denom)]
    IN  IF \E i \in 1..dimension : IsErr(quot[i])
        THEN quot[CHOOSE i \in 1..dimension : IsErr(quot[i])]
        ELSE Ok([cluster EXCEPT !.center = [i \in 1..dimension |-> quot[i].val]])

(***************************************************************************)
(* The callables the host passes in. callfcn(state, scope, f, args) applies *)
(* f to args; the three operators below are callfcn at a metric, an update  *)
(* rule and a cluster constructor, for the callables the model draws from.  *)
(***************************************************************************)
RECURSIVE SumTo(_, _)
SumTo(f, n) == IF n = 0 THEN Num(0) ELSE RAdd(SumTo(f, n - 1), f[n])

\* A metric is total: on vectors of different lengths it uses the common prefix.
Metric(metric, a, b) ==
    LET n == Min(Len(a), Len(b))
        sq == [i \in 1..n |-> RMul(RSub(a[i], b[i]), RSub(a[i], b[i]))]
        pr == [i \in 1..n |-> RMul(a[i], b[i])]
    IN  IF metric = "sqEuclid" THEN SumTo(sq, n)
        ELSE RSub(Num(0), SumTo(pr, n))         \* "negDot": not a true metric

Update(update, bucket, cluster) == UpdateMean(bucket, cluster, update.weight)

NewCluster(newCluster, i, vec) ==
    IF newCluster = "withCenter" THEN [center |-> vec, id |-> i]
    ELSE [center |-> [j \in 1..Len(vec) |-> Num(0)], id |-> i]    \* "atOrigin"

(***************************************************************************)
(* titus.lib1.array.argLowestN(x, n, lt) with lt = (a < b). It is defined   *)
(* outside cluster.py, in titus/lib1/array.py, and is modelled from the     *)
(* specification (section 4.1):                                             *)
(* the indexes of the n smallest values in ascending order, each found by a *)
(* scan that keeps the first value seen unless a strictly smaller one       *)
(* appears later, and n clamped to the length of x. Indexes are 1-based.    *)
(***************************************************************************)
RECURSIVE LowestFrom(_, _, _, _)
LowestFrom(x, taken, i, best) ==
    IF i > Len(x) THEN best
    ELSE IF i \in taken THEN LowestFrom(x, taken, i + 1, best)
    ELSE IF best = 0 \/ RLt(x[i], x[best]) THEN LowestFrom(x, taken, i + 1, i)
    ELSE LowestFrom(x, taken, i + 1, best)

RECURSIVE argLowestAcc(_, _, _)
argLowestAcc(x, n, out) ==
    IF n <= 0 \/ Len(out) = Len(x) THEN out
    ELSE argLowestAcc(x, n - 1,
                      Append(out, LowestFrom(x, {out[j] : j \in 1..Len(out)}, 1, 0)))

argLowestN(x, n) == argLowestAcc(x, n, <<>>)

(***************************************************************************)
(* closest and closestN, cluster.py lines 42-47 and 53-56.                  *)
(***************************************************************************)
Distances(datum, cs, metric) ==
    [i \in 1..Len(cs) |-> Metric(metric, datum, cs[i].center)]

\* Variant of Closest: the last cluster, whatever the distances.
ClosestLast(datum, cs, metric) ==
    IF Len(cs) = 0 THEN Err("no clusters") ELSE Ok(cs[Len(cs)])

Closest(datum, cs, metric) ==
    IF Len(cs) = 0 THEN Err("no clusters")
    ELSE LET distances == Distances(datum, cs, metric)
             index == argLowestN(distances, 1)[1]
         IN  Ok(cs[index])

ClosestN(datum, cs, metric, n) ==
    LET distances == Distances(datum, cs, metric)
        indexes == argLowestN(distances, n)
    IN  Ok([i \in 1..Len(indexes) |-> cs[indexes[i]]])

(***************************************************************************)
(* randomSeeds, cluster.py lines 62-77. uniques is the set of distinct      *)
(* vectors of data; list(set(...)) followed by state.rand.shuffle leaves    *)
(* them in an order the caller does not control: shuffled is that order.    *)
(***************************************************************************)
Range(s) == {s[i] : i \in 1..Len(s)}

Uniques(data) == Range(data)

Shuffles(S) ==
    {f \in [1..Cardinality(S) -> S] : \A i, j \in 1..Cardinality(S) : f[i] = f[j] => i = j}

\* Variant of RandomSeedsError: the checks of lines 67 and 71 exchanged.
RandomSeedsErrorSizesFirst(data, k) ==
    IF k <= 0 THEN "k must be greater than zero"
    ELSE IF Cardinality({Len(x) : x \in Uniques(data)}) # 1
    THEN "dimensions of vectors do not match"
    ELSE IF Cardinality(Uniques(data)) < k THEN "not enough unique points"
    ELSE ""

\* The error of lines 63-72, or "" when the arguments pass.
RandomSeedsError(data, k) ==
    IF k <= 0 THEN "k must be greater than zero"
    ELSE IF Cardinality(Uniques(data)) < k THEN "not enough unique points"
    ELSE IF Cardinality({Len(x) : x \in Uniques(data)}) # 1
    THEN "dimensions of vectors do not match"
    ELSE ""

\* Number of times state.rand is drawn from (line 74).
RandomSeedsDraws(data, k) == IF RandomSeedsError(data, k) = "" THEN 1 ELSE 0

\* Variant of Selected: the first vector, k times.
SelectedFirstRepeated(shuffled, k) == [i \in 1..k |-> shuffled[1]]

\* selected of line 75.
Selected(shuffled, k) == SubSeq(shuffled, 1, k)

\* The constructor invocations of line 77: <<i, vec>> for i = 0..k-1.
RandomSeedsCalls(data, k, shuffled) ==
    IF RandomSeedsError(data, k) # "" THEN <<>>
    ELSE [i \in 1..k |-> <<i - 1, Selected(shuffled, k)[i]>>]

RandomSeeds(data, k, newCluster, shuffled) ==
    IF RandomSeedsError(data, k) # "" THEN Err(RandomSeedsError(data, k))
    ELSE LET invoked == RandomSeedsCalls(data, k, shuffled)
         IN  Ok([i \in 1..k |-> NewCluster(newCluster, invoked[i][1], invoked[i][2])])

(***************************************************************************)
(* kmeansIteration, cluster.py lines 83-116. Indexes are 1-based here;      *)
(* besti = 0 stands for "bestCenter is None".                               *)
(***************************************************************************)
\* Variant of BestIndex: line 103 with <= in place of <.
RECURSIVE BestIndexLastTie(_, _, _, _, _)
BestIndexLastTie(datum, centers, metric, i, besti) ==
    IF i > Len(centers) THEN besti
    ELSE IF besti = 0
            \/ ~RLt(Metric(metric, datum, centers[besti]), Metric(metric, datum, centers[i]))
    THEN BestIndexLastTie(datum, centers, metric, i + 1, i)
    ELSE BestIndexLastTie(datum, centers, metric, i + 1, besti)

\* The while loop of lines 100-107, from index i on.
RECURSIVE BestIndex(_, _, _, _, _)
BestIndex(datum, centers, metric, i, besti) ==
    IF i > Len(centers) THEN besti
    ELSE IF besti = 0
            \/ RLt(Metric(metric, datum, centers[i]), Metric(metric, datum, centers[besti]))
    THEN BestIndex(datum, centers, metric, i + 1, i)
    ELSE BestIndex(datum, centers, metric, i + 1, besti)

\* matched after the first n data vectors (lines 93-108).
RECURSIVE Matched(_, _, _, _)
Matched(data, centers, metric, n) ==
    IF n = 0 THEN [c \in 1..Len(centers) |-> <<>>]
    ELSE LET prev == Matched(data, centers, metric, n - 1)
             besti == BestIndex(data[n], centers, metric, 1, 0)
         IN  [prev EXCEPT ![besti] = Append(prev[besti], data[n])]

KMeansMatched(data, cs, metric) ==
    IF Len(data) = 0 \/ Len(cs) = 0 THEN <<>>
    ELSE Matched(data, [i \in 1..Len(cs) |-> cs[i].center], metric, Len(data))

\* Variant of KMeansInvoked: the update rule is invoked for every cluster.
KMeansInvokedAlways(buckets, i) == TRUE

\* Line 112 negated: whether the update rule is invoked for cluster i.
KMeansInvoked(buckets, i) == Len(buckets[i]) # 0

\* Element i of out (lines 112-115), as an outcome.
KMeansOut(cs, buckets, update, i) ==
    IF KMeansInvoked(buckets, i) THEN Update(update, buckets[i], cs[i])
    ELSE Ok(cs[i])

\* The first index whose update raises, or Len(cs) + 1 when none does.
FirstFailure(cs, buckets, update) ==
    LET bad == {i \in 1..Len(cs) : IsErr(KMeansOut(cs, buckets, update, i))}
    IN  IF bad = {} THEN Len(cs) + 1 ELSE CHOOSE i \in bad : \A j \in bad : i <= j

\* The update invocations of line 115, in order: <<i, bucket, cluster>>.
KMeansCalls(data, cs, metric, update) ==
    LET buckets == KMeansMatched(data, cs, metric)
        stop == IF buckets = <<>> THEN 0 ELSE Min(FirstFailure(cs, buckets, update), Len(cs))
        nth[n \in 0..Len(cs)] ==
            IF n = 0 THEN <<>>
            ELSE IF KMeansInvoked(buckets, n)
            THEN Append(nth[n - 1], <<n, buckets[n], cs[n]>>)
            ELSE nth[n - 1]
    IN  nth[stop]

KMeansIteration(data, cs, metric, update) ==
    IF Len(data) = 0 THEN Err("no data")
    ELSE IF Len(cs) = 0 THEN Err("no clusters")
    ELSE LET buckets == KMeansMatched(data, cs, metric)
             fail == FirstFailure(cs, buckets, update)
         IN  IF fail <= Len(cs) THEN KMeansOut(cs, buckets, update, fail)
             ELSE Ok([i \in 1..Len(cs) |-> KMeansOut(cs, buckets, update, i).val])

(***************************************************************************)
(* The arguments the calls are drawn from. Vectors have length 0, 1 or 2,   *)
(* so that vectors of different lengths and of no component occur; weights  *)
(* reach from -MaxData, where len(data) + weight can be zero, to MaxWeight. *)
(* randomSeeds draws data one longer than MaxData, so that a duplicate      *)
(* still leaves two distinct vectors.                                       *)
(***************************************************************************)
SeqsUpTo(S, n) == UNION {[1..m -> S] : m \in 0..n}

Vec(S, d) == [1..d -> {Num(v) : v \in S}]

Dims == {0, 1, 2}

\* updateMean and randomSeeds: data over {1, 3}, old centers over {0, 1}.
DataVectors == UNION {Vec({1, 3}, d) : d \in Dims}

CenterVectors == UNION {Vec({0, 1}, d) : d \in Dims}

\* closest, closestN and kmeansIteration: data and centers over these points.
Points == {<<Num(0)>>, <<Num(2)>>, <<Num(1), Num(1)>>}

Metrics == {"sqEuclid", "negDot"}

Weights == {Num(w) : w \in (0 - MaxData)..MaxWeight}

Updates == {[fcn |-> "updateMean", weight |-> Num(w)] : w \in {0, 1}}

Constructors == {"withCenter", "atOrigin"}

\* A cluster record: the required field center and one extension field.
Cluster(center, id) == [center |-> center, id |-> id]

ClusterList(centers) == [i \in 1..Len(centers) |-> Cluster(centers[i], 10 + i)]

(***************************************************************************)
(* The state before any call, and one action per library function.          *)
(***************************************************************************)
Init ==
    /\ op = "idle"
    /\ arg = <<>>
    /\ ret = NoRet
    /\ matched = <<>>
    /\ calls = <<>>
    /\ rand = 0
    /\ clusters = <<>>
    /\ steps = 0

CallClosest ==
    /\ op = "idle"
    /\ \E datum \in Points, centers \in SeqsUpTo(Points, MaxClusters), metric \in Metrics :
         /\ arg' = [datum |-> datum, clusters |-> ClusterList(centers), metric |-> metric]
         /\ ret' = Closest(datum, ClusterList(centers), metric)
    /\ op' = "closest"
    /\ UNCHANGED <<matched, calls, rand, clusters, steps>>

CallClosestN ==
    /\ op = "idle"
    /\ \E datum \in Points, centers \in SeqsUpTo(Points, MaxClusters), metric \in Metrics,
          n \in (0 - 1)..(MaxClusters + 1) :
         /\ arg' = [datum |-> datum, clusters |-> ClusterList(centers), metric |-> metric,
                    n |-> n]
         /\ ret' = ClosestN(datum, ClusterList(centers), metric, n)
    /\ op' = "closestN"
    /\ UNCHANGED <<matched, calls, rand, clusters, steps>>

CallRandomSeeds ==
    /\ op = "idle"
    /\ \E data \in SeqsUpTo(DataVectors, MaxData + 1), k \in (0 - 1)..MaxK,
          newCluster \in Constructors :
         \E shuffled \in IF RandomSeedsDraws(data, k) = 0 THEN {<<>>}
                         ELSE Shuffles(Uniques(data)) :
            /\ arg' = [data |-> data, k |-> k, newCluster |-> newCluster]
            /\ ret' = RandomSeeds(data, k, newCluster, shuffled)
            /\ calls' = RandomSeedsCalls(data, k, shuffled)
            /\ rand' = rand + RandomSeedsDraws(data, k)
    /\ op' = "randomSeeds"
    /\ UNCHANGED <<matched, clusters, steps>>

CallKMeansIteration ==
    /\ op = "idle"
    /\ \E data \in SeqsUpTo(Points, MaxData), centers \in SeqsUpTo(Points, MaxClusters),
          metric \in Metrics, update \in Updates :
         /\ arg' = [data |-> data, clusters |-> ClusterList(centers), metric |-> metric,
                    update |-> update]
         /\ ret' = KMeansIteration(data, ClusterList(centers), metric, update)
         /\ matched' = KMeansMatched(data, ClusterList(centers), metric)
         /\ calls' = KMeansCalls(data, ClusterList(centers), metric, update)
    /\ op' = "kmeansIteration"
    /\ UNCHANGED <<rand, clusters, steps>>

CallUpdateMean ==
    /\ op = "idle"
    /\ \E data \in SeqsUpTo(DataVectors, MaxData), center \in CenterVectors,
          weight \in Weights :
         /\ arg' = [data |-> data, cluster |-> Cluster(center, 7), weight |-> weight]
         /\ ret' = UpdateMean(data, Cluster(center, 7), weight)
    /\ op' = "updateMean"
    /\ UNCHANGED <<matched, calls, rand, clusters, steps>>

Next ==
    \/ CallClosest
    \/ CallClosestN
    \/ CallRandomSeeds
    \/ CallKMeansIteration
    \/ CallUpdateMean

Spec == Init /\ [][Next]_vars

(***************************************************************************)
(* Definitions the properties are stated with.                              *)
(***************************************************************************)
\* The lowest index i such that no cluster is strictly closer to datum than cs[i].
Nearest(datum, cs, metric) ==
    LET d == Distances(datum, cs, metric)
        minimal == {i \in 1..Len(cs) : \A j \in 1..Len(cs) : ~RLt(d[j], d[i])}
    IN  CHOOSE i \in minimal : \A j \in minimal : i <= j

\* Whether some later cluster is exactly as close to datum as the nearest one.
TiedLater(datum, cs, metric) ==
    LET d == Distances(datum, cs, metric)
    IN  \E j \in (Nearest(datum, cs, metric) + 1)..Len(cs) :
            d[j] = d[Nearest(datum, cs, metric)]

\* The elements of data at the positions in I, in the order of data.
RECURSIVE PickUpTo(_, _, _)
PickUpTo(data, I, n) ==
    IF n = 0 THEN <<>>
    ELSE IF n \in I THEN Append(PickUpTo(data, I, n - 1), data[n])
    ELSE PickUpTo(data, I, n - 1)

RECURSIVE TotalLen(_, _)
TotalLen(buckets, n) == IF n = 0 THEN 0 ELSE TotalLen(buckets, n - 1) + Len(buckets[n])

(***************************************************************************)
(* C1. kmeansIteration on nonempty data and nonempty clusters puts every    *)
(* data vector in exactly one bucket, the bucket of the lowest-index        *)
(* cluster that no cluster is strictly closer than; each bucket keeps the   *)
(* order of data, and the bucket sizes sum to len(data).                    *)
(***************************************************************************)
C1_Buckets ==
    (op = "kmeansIteration" /\ Len(arg.data) > 0 /\ Len(arg.clusters) > 0) =>
        /\ Len(matched) = Len(arg.clusters)
        /\ LET near == [n \in 1..Len(arg.data) |->
                           Nearest(arg.data[n], arg.clusters, arg.metric)]
           IN  \A c \in 1..Len(arg.clusters) :
                  matched[c] =
                     PickUpTo(arg.data, {n \in 1..Len(arg.data) : near[n] = c},
                              Len(arg.data))
        /\ TotalLen(matched, Len(matched)) = Len(arg.data)

\* Two different vectors share the bucket of a cluster that is not the first,
\* and the first of them is as close to a later cluster.
C1_Witness ==
    /\ op = "kmeansIteration"
    /\ \E c \in 2..Len(matched) :
         /\ Len(matched[c]) = 2
         /\ matched[c][1] # matched[c][2]
         /\ matched[c] = arg.data
         /\ TiedLater(arg.data[1], arg.clusters, arg.metric)

(***************************************************************************)
(* C2. A successful kmeansIteration returns as many clusters as it was      *)
(* given; a cluster with an empty bucket is returned unchanged, without a   *)
(* call of the update rule; a cluster with a nonempty bucket is replaced by *)
(* update(bucket, cluster); the update rule is never given an empty bucket. *)
(***************************************************************************)
C2_Output ==
    op = "kmeansIteration" =>
        /\ \A n \in 1..Len(calls) : calls[n][2] # <<>>
        /\ IsOk(ret) =>
             /\ Len(ret.val) = Len(arg.clusters)
             /\ \A i \in 1..Len(arg.clusters) :
                  IF matched[i] = <<>>
                  THEN /\ ret.val[i] = arg.clusters[i]
                       /\ \A n \in 1..Len(calls) : calls[n][1] # i
                  ELSE /\ ret.val[i] = Update(arg.update, matched[i], arg.clusters[i]).val
                       /\ \E n \in 1..Len(calls) :
                            calls[n] = <<i, matched[i], arg.clusters[i]>>

\* A successful call with an empty bucket and a bucket whose cluster moved.
C2_Witness ==
    /\ op = "kmeansIteration"
    /\ IsOk(ret)
    /\ \E i, j \in 1..Len(arg.clusters) :
         /\ matched[i] = <<>>
         /\ matched[j] # <<>>
         /\ ret.val[j].center # arg.clusters[j].center
         /\ ret.val[j].id = arg.clusters[j].id

(***************************************************************************)
(* C3. closest on a nonempty cluster list returns the cluster of the lowest *)
(* index that no cluster is strictly closer than: a cluster at minimal      *)
(* distance, the earliest one when several are at that distance.            *)
(***************************************************************************)
C3_Closest ==
    (op = "closest" /\ Len(arg.clusters) > 0) =>
        /\ IsOk(ret)
        /\ ret.val = arg.clusters[Nearest(arg.datum, arg.clusters, arg.metric)]

\* The nearest cluster is neither the first nor the last, and a later one ties.
C3_Witness ==
    /\ op = "closest"
    /\ IsOk(ret)
    /\ Nearest(arg.datum, arg.clusters, arg.metric) = 2
    /\ ret.val.id = 12
    /\ TiedLater(arg.datum, arg.clusters, arg.metric)

(***************************************************************************)
(* updateMean: the arguments of the call recorded in arg.                   *)
(***************************************************************************)
\* data is nonempty and its vectors and the old center have one length.
OneDimension ==
    /\ Len(arg.data) > 0
    /\ \A n \in 1..Len(arg.data) : Len(arg.data[n]) = Len(arg.cluster.center)

\* len(data) + weight.
Denominator == RAdd(Num(Len(arg.data)), arg.weight)

\* The sum over data of vec[j].
ColumnSum(j) == SumTo([n \in 1..Len(arg.data) |-> arg.data[n][j]], Len(arg.data))

\* The call returned the old cluster with center replaced by the weighted mean.
ReturnsMean ==
    /\ IsOk(ret)
    /\ DOMAIN ret.val = DOMAIN arg.cluster
    /\ \A f \in DOMAIN arg.cluster \ {"center"} : ret.val[f] = arg.cluster[f]
    /\ Len(ret.val.center) = Len(arg.cluster.center)
    /\ \A j \in 1..Len(ret.val.center) :
         /\ RMul(ret.val.center[j], Denominator) =
               RAdd(ColumnSum(j), RMul(arg.weight, arg.cluster.center[j]))
         /\ IsZero(arg.weight) =>
               RMul(ret.val.center[j], Num(Len(arg.data))) = ColumnSum(j)

(***************************************************************************)
(* C4, as claimed. For every nonempty data whose vectors and the old center *)
(* share one dimension, updateMean returns the old cluster with only center *)
(* changed, center[j] * (len(data) + weight) = sum of vec[j] + weight *     *)
(* old center[j], the plain mean when weight = 0. It fails for              *)
(* weight = -len(data), where no cluster is returned.                       *)
(***************************************************************************)
C4_AsClaimed == (op = "updateMean" /\ OneDimension) => ReturnsMean

(***************************************************************************)
(* C4, amended. The same, for every weight with len(data) + weight # 0.     *)
(***************************************************************************)
C4_Mean == (op = "updateMean" /\ OneDimension /\ ~IsZero(Denominator)) => ReturnsMean

\* updateMean([[1,1],[3,3]], {center: [0,0]}, 1) has center [4/3, 4/3].
C4_Witness ==
    /\ op = "updateMean"
    /\ arg.data = <<<<Num(1), Num(1)>>, <<Num(3), Num(3)>>>>
    /\ arg.cluster.center = <<Num(0), Num(0)>>
    /\ arg.weight = Num(1)
    /\ IsOk(ret)
    /\ ret.val.center = <<Rat(4, 3), Rat(4, 3)>>

(***************************************************************************)
(* C5. A successful randomSeeds returns exactly k clusters: it invokes the  *)
(* constructor k times, with the indexes 0, 1, ..., k-1 in that order, on k *)
(* pairwise distinct vectors of data, and returns its results in that       *)
(* order; with a constructor that stores its vector as center the returned  *)
(* centers are pairwise distinct. This holds for every order of the shuffle.*)
(***************************************************************************)
C5_Seeds ==
    (op = "randomSeeds" /\ IsOk(ret)) =>
        /\ Len(ret.val) = arg.k
        /\ Len(calls) = arg.k
        /\ \A i \in 1..arg.k :
             /\ calls[i][1] = i - 1
             /\ calls[i][2] \in Range(arg.data)
             /\ ret.val[i] = NewCluster(arg.newCluster, calls[i][1], calls[i][2])
        /\ \A i, j \in 1..arg.k : calls[i][2] = calls[j][2] => i = j
        /\ arg.newCluster = "withCenter" =>
             \A i, j \in 1..arg.k : ret.val[i].center = ret.val[j].center => i = j

\* Two seeds out of three data vectors with a duplicate, taken in an order
\* that is not the order of data.
C5_Witness ==
    /\ op = "randomSeeds"
    /\ IsOk(ret)
    /\ arg.k = 2
    /\ Len(arg.data) = 3
    /\ arg.data[1] = arg.data[2]
    /\ calls[1][2] = arg.data[3]
    /\ calls[2][2] = arg.data[1]
    /\ ret.val[2].center = arg.data[1]

(***************************************************************************)
(* C6. randomSeeds validates in a fixed order and before any effect:        *)
(* k <= 0 fails with "k must be greater than zero"; otherwise fewer than k  *)
(* distinct vectors (empty data included) fails with "not enough unique     *)
(* points"; otherwise distinct vectors of different lengths fail with       *)
(* "dimensions of vectors do not match". A failing call leaves the          *)
(* randomness source as it was, invokes no constructor, returns no list.    *)
(***************************************************************************)
C6_Validation ==
    [][op' = "randomSeeds" =>
        /\ arg'.k <= 0 => Failed(ret', "k must be greater than zero")
        /\ (arg'.k > 0 /\ Cardinality(Range(arg'.data)) < arg'.k) =>
              Failed(ret', "not enough unique points")
        /\ (arg'.k > 0 /\ Cardinality(Range(arg'.data)) >= arg'.k
              /\ \E x, y \in Range(arg'.data) : Len(x) # Len(y)) =>
              Failed(ret', "dimensions of vectors do not match")
        /\ IsErr(ret') => (rand' = rand /\ calls' = <<>>)
        /\ IsErr(ret') \/ IsOk(ret')]_vars

\* Too few distinct vectors, although data is as long as k and its vectors
\* have different lengths: the second check fails before the third.
C6_Witness ==
    /\ op = "randomSeeds"
    /\ Failed(ret, "not enough unique points")
    /\ Len(arg.data) >= arg.k
    /\ \E x, y \in Range(arg.data) : Len(x) # Len(y)
    /\ rand = 0
    /\ calls = <<>>

(***************************************************************************)
(* C7. closest and closestN, called with an empty cluster list, both fail   *)
(* with "no clusters", for every datum, metric and n. closestN has no such  *)
(* check: it returns an empty list.                                         *)
(***************************************************************************)
C7_EmptyClusterSet ==
    (op \in {"closest", "closestN"} /\ Len(arg.clusters) = 0) => Failed(ret, "no clusters")

(***************************************************************************)
(* C8. updateMean returns a value only when every vector of data and the    *)
(* old center have one common length: on nonempty data, a data vector whose *)
(* length differs from another's, or an old center whose length differs     *)
(* from the data vectors', fails with "dimensions of vectors do not match". *)
(***************************************************************************)
C8_Dimension ==
    op = "updateMean" =>
        /\ IsOk(ret) => OneDimension
        /\ (Len(arg.data) > 0 /\ ~OneDimension) =>
              Failed(ret, "dimensions of vectors do not match")

\* The data vectors agree, the old center alone is shorter, and the
\* denominator is zero: the call fails on the dimensions.
C8_Witness ==
    /\ op = "updateMean"
    /\ Len(arg.data) = 2
    /\ Len(arg.data[1]) = 2
    /\ Len(arg.data[2]) = 2
    /\ Len(arg.cluster.center) = 1
    /\ IsZero(Denominator)
    /\ Failed(ret, "dimensions of vectors do not match")

(***************************************************************************)
(* C9, as claimed. Whenever len(data) + weight is zero, updateMean fails    *)
(* with DivisionByZero. It fails for data that fails a check made earlier   *)
(* (no data, dimensions), and for vectors of length 0, which are never      *)
(* divided.                                                                 *)
(***************************************************************************)
C9_AsClaimed ==
    (op = "updateMean" /\ IsZero(Denominator)) => Failed(ret, "DivisionByZero")

(***************************************************************************)
(* C9, amended. Whenever len(data) + weight is zero and data is nonempty    *)
(* with its vectors and the old center of one length d >= 1, updateMean     *)
(* fails with DivisionByZero; whenever len(data) + weight is zero it        *)
(* returns no center with a component; and for nonempty data and            *)
(* weight >= 0 the denominator is at least 1 and there is no division by    *)
(* zero.                                                                    *)
(***************************************************************************)
C9_DivisionByZero ==
    op = "updateMean" =>
        /\ (IsZero(Denominator) /\ OneDimension /\ Len(arg.cluster.center) >= 1) =>
              Failed(ret, "DivisionByZero")
        /\ (IsZero(Denominator) /\ IsOk(ret)) => ret.val.center = <<>>
        /\ (Len(arg.data) > 0 /\ ~RLt(arg.weight, Num(0))) =>
              /\ ~RLt(Denominator, Num(1))
              /\ ~Failed(ret, "DivisionByZero")

\* Two vectors of length 2 and weight -2: the division fails.
C9_Witness ==
    /\ op = "updateMean"
    /\ Len(arg.data) = 2
    /\ OneDimension
    /\ Len(arg.cluster.center) = 2
    /\ arg.weight = Num(0 - 2)
    /\ Failed(ret, "DivisionByZero")

(***************************************************************************)
(* The caller's loop: kmeansIteration with updateMean (weight 0) repeated   *)
(* on a well-separated 2D dataset, from two distinct data points as         *)
(* centers. The loop is the caller's, not the library's; each step of it is *)
(* one call of KMeansIteration.                                             *)
(***************************************************************************)
GridPoints == {<<Num(x), Num(y)>> : x \in {0, 1, 5, 6}, y \in {0, 1}}

\* Two nonempty groups, every point strictly closer to every point of its own
\* group than to any point of the other.
WellSeparated(S) ==
    \E A \in SUBSET S :
        /\ A # {}
        /\ A # S
        /\ \A G \in {A, S \ A} :
             \A p \in G, q \in G, r \in S \ G :
                RLt(Metric("sqEuclid", p, q), Metric("sqEuclid", p, r))

RECURSIVE SeqOf(_)
SeqOf(S) ==
    IF S = {} THEN <<>>
    ELSE LET x == CHOOSE x \in S : TRUE IN <<x>> \o SeqOf(S \ {x})

Datasets ==
    {S \in SUBSET GridPoints : Cardinality(S) \in 2..MaxPoints /\ WellSeparated(S)}

PlainMean == [fcn |-> "updateMean", weight |-> Num(0)]

LloydInit ==
    /\ op = "lloyd"
    /\ \E S \in Datasets :
         \E c1 \in S, c2 \in S :
            /\ c1 # c2
            /\ arg = [data |-> SeqOf(S), metric |-> "sqEuclid", update |-> PlainMean,
                      seeds |-> <<c1, c2>>]
            /\ clusters = ClusterList(<<c1, c2>>)
    /\ ret = NoRet
    /\ matched = <<>>
    /\ calls = <<>>
    /\ rand = 0
    /\ steps = 0

LloydStep ==
    /\ op = "lloyd"
    /\ steps < MaxSteps
    /\ ret' = KMeansIteration(arg.data, clusters, arg.metric, arg.update)
    /\ matched' = KMeansMatched(arg.data, clusters, arg.metric)
    /\ calls' = KMeansCalls(arg.data, clusters, arg.metric, arg.update)
    /\ clusters' = IF IsOk(ret') THEN ret'.val ELSE clusters
    /\ steps' = steps + 1
    /\ UNCHANGED <<op, arg, rand>>

LloydNext == LloydStep

LloydSpec == LloydInit /\ [][LloydNext]_vars

\* A further kmeansIteration leaves the cluster list unchanged.
Stable == KMeansIteration(arg.data, clusters, arg.metric, arg.update) = Ok(clusters)

(***************************************************************************)
(* C10. From any two distinct points of a well-separated 2D dataset as      *)
(* centers, repeating kmeansIteration with updateMean (weight 0) reaches    *)
(* within ConvergeSteps iterations a cluster list that a further            *)
(* kmeansIteration leaves unchanged, and the list then stays unchanged      *)
(* under every later iteration.                                             *)
(***************************************************************************)
C10_Converges ==
    /\ [](steps >= ConvergeSteps => Stable)
    /\ [][Stable => clusters' = clusters]_vars

\* Both centers start in one group and both have moved by the time the list
\* is stable.
C10_Witness ==
    /\ op = "lloyd"
    /\ steps >= ConvergeSteps
    /\ Stable
    /\ RLt(arg.seeds[1][1], Num(2))
    /\ RLt(arg.seeds[2][1], Num(2))
    /\ clusters[1].center # arg.seeds[1]
    /\ clusters[2].center # arg.seeds[2]
    /\ clusters[1].id = 11
    /\ clusters[2].id = 12

====
